---- MODULE Spec2Model ----
(***************************************************************************)
(* METAR map (metarthread.py): the weather classifier (get_weather), the   *)
(* target-state calculator (calc_target_colors), the blink tasks (blinkme) *)
(* and the main display loop that starts, cancels, joins and restarts the  *)
(* blink threads through the single shared STOPFLAG.                       *)
(*                                                                         *)
(* Positions are 0-based as in the source; lists are functions on 0..n-1.  *)
(* An optional XML element is a sequence: <<>> when metar.find() is None,  *)
(* <<v>> when the element is present with value v.  Time is not modelled:  *)
(* a sleep() is the gap between two steps of a thread.  A thread object is *)
(* its blinkme frame; threadarray holds the frames it refers to, and the   *)
(* live threads no list refers to any more are the bag orphans.            *)
(***************************************************************************)
EXTENDS Integers, Sequences, FiniteSets, Bags, TLC

\* ------------------------------------------------------------------------
\* Configuration values of the source
\* ------------------------------------------------------------------------
COLOR_VFR == <<255, 0, 0>>
COLOR_MVFR == <<0, 0, 255>>
COLOR_IFR == <<0, 255, 0>>
COLOR_LIFR == <<0, 125, 125>>
COLOR_CLEAR == <<0, 0, 0>>
COLOR_LIGHTNING == <<255, 255, 255>>

WIND_BLINK_THRESHOLD == 25
BLINK_SPEED == 2
DISPLAY_ROTATION_SPEED == 5
DONTSTOP == -1

\* ------------------------------------------------------------------------
\* Bounds of the model.  The source blinks a thread for 9999 s, highlights
\* with a 0.1 s period and refreshes every 1800 s (4999 blinks, 50 fast
\* blinks, 180 rotations for two stations); the model keeps the formulas
\* and scales the durations so that the counts stay small.  MaxPos bounds
\* the airports list, MaxFeed the records of a response given to the
\* classifier alone, MaxOrphans the threads alive when a cycle drops
\* threadarray (the main thread waits at line 292 while more are alive).  The
\* refresh time is no multiple of the rotation speed, so that int() at line
\* 291 truncates.
\* ------------------------------------------------------------------------
MaxPos == 2
MaxOrphans == 1
MaxFeed == 2
LONG_BLINK_TIME == 4
FAST_BLINK_SPEED == 2
REFRESH_TIME_SECONDS == 11

\* ------------------------------------------------------------------------
\* Input alphabets
\* ------------------------------------------------------------------------
\* real station identifiers
StationIds == {"KBOS", "KJFK"}
\* entries of the airports file: stations, the NULL placeholder, a blank line
AirportNames == StationIds \cup {"NULL", ""}
\* datetime.datetime.now(), later than every observation time of a feed
NOW == 9

Range(f) == {f[x] : x \in DOMAIN f}

\* append to a 0-based list
Append0(f, x) ==
  LET n == Cardinality(DOMAIN f)
  IN  [q \in 0..n |-> IF q < n THEN f[q] ELSE x]

EmptyList == [q \in {} |-> 0]

\* ------------------------------------------------------------------------
\* get_weather
\* ------------------------------------------------------------------------
\* int(round(float(text))) on a value given in tenths: Python 3 rounds half
\* to even
RoundTenths(t) ==
  LET a == IF t < 0 THEN -t ELSE t
      q == a \div 10
      r == a % 10
      m == IF r < 5 THEN q
           ELSE IF r > 5 THEN q + 1
           ELSE IF q % 2 = 0 THEN q ELSE q + 1
  IN  IF t < 0 THEN -m ELSE m

\* a classifier for which a gust at the threshold already blinks
GustBlinksAtThreshold(always, gust) == always \/ gust >= WIND_BLINK_THRESHOLD

\* line 197
GustBlinks(always, gust) == always \/ gust > WIND_BLINK_THRESHOLD

\* line 219: rawText.find('LTG') != -1, the raw text being a sequence of tokens
HasLTG(rawText) == \E j \in 1..Len(rawText) : rawText[j] = "LTG"

\* lines 184-219 and 229: the condition built for one METAR element;
\* obsTime is the value the local variable obsTime holds at line 229
StationCondition(metar, always, obsTime) ==
  [ flightCategory |-> metar.flight_category[1],
    windSpeed      |-> IF metar.wind_speed_kt # <<>> THEN metar.wind_speed_kt[1] ELSE 0,
    windGustSpeed  |-> IF metar.wind_gust_kt # <<>> THEN metar.wind_gust_kt[1] ELSE 0,
    windGust       |-> IF metar.wind_gust_kt # <<>>
                       THEN GustBlinks(always, metar.wind_gust_kt[1]) ELSE FALSE,
    tempC          |-> IF metar.temp_c # <<>> THEN RoundTenths(metar.temp_c[1]) ELSE 0,
    lightning      |-> IF metar.raw_text # <<>> THEN HasLTG(metar.raw_text[1]) ELSE FALSE,
    obsTime        |-> obsTime ]

\* a classifier that also skips the records without wind speed
SkippedWithoutWind(metar) == metar.flight_category = <<>> \/ metar.wind_speed_kt = <<>>

\* line 180: a METAR element without flight_category is skipped
Skipped(metar) == metar.flight_category = <<>>

\* lines 212-213: obsTime is assigned only when the element is present; it is
\* never reset, so it keeps the previous record's value (<<>>: still unbound)
ObsTimeAfter(metar, obsTime) ==
  IF metar.observation_time # <<>> THEN metar.observation_time ELSE obsTime

\* lines 178-231, the loop over root.iter('METAR') from record k on.
\* Result: raised (UnboundLocalError at line 229) or the dictionary.
RECURSIVE get_weather_loop(_, _, _, _, _)
get_weather_loop(feed, k, always, dict, obsTime) ==
  IF k > Len(feed) THEN [raised |-> FALSE, dict |-> dict]
  ELSE IF Skipped(feed[k]) THEN get_weather_loop(feed, k + 1, always, dict, obsTime)
  ELSE LET t == ObsTimeAfter(feed[k], obsTime)
       IN  IF t = <<>> THEN [raised |-> TRUE, dict |-> dict]
           ELSE LET c == StationCondition(feed[k], always, t[1])
                    s == feed[k].station_id
                    d == [x \in DOMAIN dict \cup {s} |-> IF x = s THEN c ELSE dict[x]]
                IN  get_weather_loop(feed, k + 1, always, d, t)

get_weather(feed, always) == get_weather_loop(feed, 1, always, EmptyList, <<>>)

\* ------------------------------------------------------------------------
\* calc_target_colors
\* ------------------------------------------------------------------------
\* a calculator that looks at the flight category before the lightning
ConditionColorCategoryFirst(condition) ==
  IF condition.flightCategory = "VFR" THEN COLOR_VFR
  ELSE IF condition.flightCategory = "MVFR" THEN COLOR_MVFR
  ELSE IF condition.flightCategory = "IFR" THEN COLOR_IFR
  ELSE IF condition.flightCategory = "LIFR" THEN COLOR_LIFR
  ELSE IF condition.lightning THEN COLOR_LIGHTNING
  ELSE COLOR_CLEAR

\* lines 247-258
ConditionColor(condition) ==
  IF condition.lightning THEN COLOR_LIGHTNING
  ELSE IF condition.flightCategory = "VFR" THEN COLOR_VFR
  ELSE IF condition.flightCategory = "MVFR" THEN COLOR_MVFR
  ELSE IF condition.flightCategory = "IFR" THEN COLOR_IFR
  ELSE IF condition.flightCategory = "LIFR" THEN COLOR_LIFR
  ELSE COLOR_CLEAR

\* a calculator that does not look at ACTIVATE_WINDCONDITION_ANIMATION
WindyUngated(condition, animate) ==
  condition.windSpeed > WIND_BLINK_THRESHOLD \/ condition.windGust = TRUE

\* line 245
Windy(condition, animate) ==
  animate /\ (condition.windSpeed > WIND_BLINK_THRESHOLD \/ condition.windGust = TRUE)

\* lines 237-262, one (color, windy) entry
TargetEntry(airportcode, conditions, animate) ==
  IF airportcode # "" /\ airportcode \in DOMAIN conditions
  THEN <<ConditionColor(conditions[airportcode]), Windy(conditions[airportcode], animate)>>
  ELSE <<COLOR_CLEAR, FALSE>>

\* a calculator that fills the entries from the end of the list
calc_target_colors_reversed(stations, conditions, animate) ==
  LET n == Cardinality(DOMAIN stations)
  IN  [q \in DOMAIN stations |-> TargetEntry(stations[(n - 1) - q], conditions, animate)]

\* lines 235-264: one entry appended per element of stations, in list order
calc_target_colors(stations, conditions, animate) ==
  [q \in DOMAIN stations |-> TargetEntry(stations[q], conditions, animate)]

\* line 100 and line 291: int() of a positive quotient truncates
NumBlinks(time, blinkrate) == time \div blinkrate
\* a rotation count rounded up
NumDisplayLoopsRoundedUp(n) ==
  (REFRESH_TIME_SECONDS + DISPLAY_ROTATION_SPEED * n - 1) \div (DISPLAY_ROTATION_SPEED * n)

NumDisplayLoops(n) == REFRESH_TIME_SECONDS \div (DISPLAY_ROTATION_SPEED * n)

\* ------------------------------------------------------------------------
\* blinkme (lines 99-112), one frame per running call.  pc is the statement
\* the call executes next: "off" (102-103, then the sleep of 104), "on"
\* (105-106, then the sleep of 107), "check" (110-111 and the loop test of
\* 101), "done" (returned).  A write and the pixels.show() after it are one
\* step.  broke tells a returned frame that left by the break of line 111;
\* flushes counts the write/show pairs the frame made while STOPFLAG named
\* its pixel (both history only).
\* ------------------------------------------------------------------------
Returned(broke) ==
  [pc |-> "done", pixelnum |-> DONTSTOP, color |-> COLOR_CLEAR, i |-> 0,
   numblinks |-> 0, flushes |-> 0, broke |-> broke]

DeadThread == Returned(FALSE)

\* the '' entry of threadarray (line 307)
NoThread == [DeadThread EXCEPT !.pc = "none"]

\* line 100-101: entering the function
BlinkStart(pixelnum, color, time, blinkrate) ==
  IF NumBlinks(time, blinkrate) > 0
  THEN [pc |-> "off", pixelnum |-> pixelnum, color |-> color, i |-> 0,
        numblinks |-> NumBlinks(time, blinkrate), flushes |-> 0, broke |-> FALSE]
  ELSE DeadThread

\* a blink task that takes any stop signal for its own
StopRequestedAny(flag, pixelnum) == flag # DONTSTOP

\* a blink task that never looks at the stop signal
StopRequestedNever(flag, pixelnum) == FALSE

\* line 110
StopRequested(flag, pixelnum) == flag = pixelnum

\* a blink that writes the color first and the dark phase last
PhaseColorSwapped(phase, color) == IF phase = "off" THEN color ELSE COLOR_CLEAR

\* lines 102 and 105: the color written in each phase
PhaseColor(phase, color) == IF phase = "off" THEN COLOR_CLEAR ELSE color

\* line 101: the for loop has no further iteration
Exhausted(t) == t.i + 1 >= t.numblinks

\* the frame after its next statement
BlinkFrame(t, flag) ==
  CASE t.pc = "off"   -> [t EXCEPT !.pc = "on",
                                   !.flushes = IF flag = t.pixelnum THEN @ + 1 ELSE @]
    [] t.pc = "on"    -> [t EXCEPT !.pc = "check",
                                   !.flushes = IF flag = t.pixelnum THEN @ + 1 ELSE @]
    [] t.pc = "check" -> IF StopRequested(flag, t.pixelnum) THEN Returned(TRUE)
                         ELSE IF Exhausted(t) THEN Returned(FALSE)
                         ELSE [t EXCEPT !.pc = "off", !.i = @ + 1]

Writes(t) == t.pc \in {"off", "on"}

\* the pixel buffer after the frame's next statement
BlinkPixels(t, px) ==
  IF Writes(t) /\ t.pixelnum \in DOMAIN px
  THEN [px EXCEPT ![t.pixelnum] = PhaseColor(t.pc, t.color)]
  ELSE px

Live(t) == t.pc \in {"off", "on", "check"}

\* ------------------------------------------------------------------------
\* State
\* ------------------------------------------------------------------------
VARIABLES
  ACTIVATE_WINDCONDITION_ANIMATION,  \* line 41
  ALWAYS_BLINK_FOR_GUSTS,            \* line 48
  FAST_BLINK_DISPLAYED_STATION,      \* line 68
  disp,              \* TRUE iff disp is not None (line 92)
  airports,          \* get_airport_list()
  content,           \* the METAR elements of the response being classified
  conditionDict, ledstate, num_display_loops,
  threadarray,       \* per position: the frame of its Thread, or NoThread
  orphans,           \* live threads that threadarray no longer refers to
  pixels,            \* the NeoPixel buffer
  shown,             \* what the strip displays (last pixels.show())
  STOPFLAG,
  pc, l, p,          \* the main thread: its position and loop variables
  fastblink,         \* the frame of the main thread's own blinkme call (line 329)
  exc,               \* the exception that ended the main thread, or "none"
  it,                \* line 317: the index the list iterator of the for loop yields next
  metarStation,      \* line 317: the loop variable
  joined,            \* history: positions joined and not written or restarted since
  slept              \* history: the seconds of sleep() at line 338 in the current visit

config == <<ACTIVATE_WINDCONDITION_ANIMATION, ALWAYS_BLINK_FOR_GUSTS,
            FAST_BLINK_DISPLAYED_STATION, disp, airports>>
\* the for loop of line 317
rot == <<it, metarStation, slept>>
vars == <<config, content, conditionDict, ledstate, num_display_loops, threadarray,
          orphans, pixels, shown, STOPFLAG, pc, l, p, fastblink, exc, joined, rot>>

NPos == Cardinality(DOMAIN airports)
Positions == DOMAIN airports

\* the live frames of threadarray, as a bag
LiveBag(ta) ==
  LET fs == {ta[q] : q \in {x \in DOMAIN ta : Live(ta[x])}}
  IN  [f \in fs |-> Cardinality({q \in DOMAIN ta : ta[q] = f})]

\* the number of live blink threads writing position q
LiveAt(q) ==
  Cardinality({x \in DOMAIN threadarray :
                 Live(threadarray[x]) /\ threadarray[x].pixelnum = q})
  + BagCardinality([f \in {g \in BagToSet(orphans) : g.pixelnum = q} |-> orphans[f]])

LiveThreads == Cardinality({x \in DOMAIN threadarray : Live(threadarray[x])})
               + BagCardinality(orphans)

\* ------------------------------------------------------------------------
\* Inputs
\* ------------------------------------------------------------------------
AirportLists(names, maxlen) == UNION {[0..(n - 1) -> names] : n \in 1..maxlen}

\* line 169: the stations asked for; the service answers for real stations
Requested == {a \in Range(airports) : a # "NULL"} \cap StationIds

MetarRecord(s, fc, gust, speed, temp, raw, obs) ==
  [station_id |-> s, flight_category |-> fc, wind_gust_kt |-> gust,
   wind_speed_kt |-> speed, temp_c |-> temp, raw_text |-> raw, observation_time |-> obs]

\* the responses of the loop's model: a windy VFR station, a calm IFR one
\* with lightning, a gusty LIFR one with lightning, one without observation
\* time, and a record without flight category
LoopRecords ==
  UNION {{ MetarRecord(s, <<"VFR">>, <<>>, <<30>>, <<>>, <<<<"RA">>>>, <<1>>),
           MetarRecord(s, <<"IFR">>, <<>>, <<>>, <<>>, <<<<"TS", "LTG">>>>, <<1>>),
           MetarRecord(s, <<"LIFR">>, <<30>>, <<>>, <<>>, <<<<"TS", "LTG">>>>, <<1>>),
           MetarRecord(s, <<"VFR">>, <<>>, <<>>, <<>>, <<>>, <<>>),
           MetarRecord(s, <<>>, <<>>, <<30>>, <<>>, <<>>, <<1>>) } : s \in StationIds}

\* any response of at most MaxFeed METAR elements
Feeds(records) == UNION {[1..n -> records] : n \in 0..MaxFeed}

\* line 169: mostRecentForEachStation=true, one METAR at most per station asked
OnePerStation(f) ==
  /\ \A k \in 1..Len(f) : f[k].station_id \in Requested
  /\ \A j, k \in 1..Len(f) : f[j].station_id = f[k].station_id => j = k

FeedsFor(records) ==
  {f \in UNION {[1..n -> records] : n \in 0..Cardinality(Requested)} : OnePerStation(f)}

\* the state before the first cycle
StartState ==
  /\ content = <<>>
  /\ ledstate = EmptyList
  /\ num_display_loops = 0
  /\ threadarray = EmptyList
  /\ orphans = EmptyBag
  /\ pixels = EmptyList
  /\ shown = [q \in DOMAIN airports |-> COLOR_CLEAR]
  /\ STOPFLAG = DONTSTOP
  /\ l = 0
  /\ p = 0
  /\ fastblink = DeadThread
  /\ exc = "none"
  /\ joined = {}
  /\ it = 0
  /\ metarStation = ""
  /\ slept = 0

\* The loop runs with the source's ALWAYS_BLINK_FOR_GUSTS (line 48).  Without
\* the display nothing ever sets STOPFLAG and the threads of different
\* positions never meet, so those runs take a list of one position.
Init ==
  /\ ACTIVATE_WINDCONDITION_ANIMATION \in BOOLEAN
  /\ ALWAYS_BLINK_FOR_GUSTS = FALSE
  /\ FAST_BLINK_DISPLAYED_STATION \in BOOLEAN
  /\ disp \in BOOLEAN
  /\ airports \in AirportLists(StationIds \cup {"NULL"}, IF disp THEN MaxPos ELSE 1)
  /\ pc = "init"
  /\ conditionDict = EmptyList
  /\ StartState

\* ------------------------------------------------------------------------
\* The main display loop (lines 285-351)
\* ------------------------------------------------------------------------
\* lines 286-287: a new NeoPixel object, its buffer dark
InitializeDisplayAndLeds ==
  /\ pc = "init"
  /\ pixels' = [q \in Positions |-> COLOR_CLEAR]
  /\ pc' = "fetch"
  /\ UNCHANGED <<config, rot, content, conditionDict, ledstate, num_display_loops,
                 threadarray, orphans, shown, STOPFLAG, l, p, fastblink, exc, joined>>

\* line 288, urlopen or ET.fromstring raising: nothing catches it
FetchFails ==
  /\ pc = "fetch"
  /\ pc' = "crashed"
  /\ exc' = "URLError"
  /\ UNCHANGED <<config, rot, content, conditionDict, ledstate, num_display_loops,
                 threadarray, orphans, pixels, shown, STOPFLAG, l, p, fastblink, joined>>

\* line 288 with a response: get_weather returns the dictionary or raises
GetWeatherOf(feeds) ==
  /\ pc = "fetch"
  /\ \E feed \in feeds :
       LET r == get_weather(feed, ALWAYS_BLINK_FOR_GUSTS)
       IN  /\ content' = feed
           /\ IF r.raised
              THEN /\ pc' = "crashed"
                   /\ exc' = "UnboundLocalError"
                   /\ UNCHANGED conditionDict
              ELSE /\ pc' = "calc"
                   /\ conditionDict' = r.dict
                   /\ UNCHANGED exc
  /\ UNCHANGED <<config, rot, ledstate, num_display_loops, threadarray, orphans, pixels,
                 shown, STOPFLAG, l, p, fastblink, joined>>

GetWeather == GetWeatherOf(FeedsFor(LoopRecords))

\* lines 289-296; threadarray = [] drops the references to the old threads
CalcTargets ==
  /\ pc = "calc"
  /\ LiveThreads <= MaxOrphans
  /\ ledstate' = calc_target_colors(airports, conditionDict, ACTIVATE_WINDCONDITION_ANIMATION)
  /\ num_display_loops' = NumDisplayLoops(NPos)
  /\ threadarray' = EmptyList
  /\ orphans' = orphans (+) LiveBag(threadarray)
  /\ pixels' = [q \in Positions |-> ledstate'[q][1]]
  /\ joined' = {}
  /\ content' = <<>>
  /\ p' = 0
  /\ pc' = "spawn"
  /\ UNCHANGED <<config, rot, conditionDict, shown, STOPFLAG, l, fastblink, exc>>

\* a main thread that starts no thread
StartedThreadNone(q) == NoThread

\* lines 303-304 and 334-335: threading.Thread(target=blinkme, ...).start()
StartedThread(q) == BlinkStart(q, ledstate[q][1], LONG_BLINK_TIME, BLINK_SPEED)

\* lines 299-307, one position per step
SpawnThread ==
  /\ pc = "spawn"
  /\ p < NPos
  /\ threadarray' = Append0(threadarray, IF ledstate[p][2] THEN StartedThread(p)
                                         ELSE NoThread)
  /\ p' = p + 1
  /\ UNCHANGED <<config, rot, content, conditionDict, ledstate, num_display_loops, orphans,
                 pixels, shown, STOPFLAG, pc, l, fastblink, exc, joined>>

\* line 309, then the test of line 311
ShowTargets ==
  /\ pc = "spawn"
  /\ p = NPos
  /\ shown' = pixels
  /\ l' = 0
  /\ pc' = IF disp THEN "loop" ELSE "sleep"
  /\ UNCHANGED <<config, rot, content, conditionDict, ledstate, num_display_loops,
                 threadarray, orphans, pixels, STOPFLAG, p, fastblink, exc, joined>>

\* line 350
SleepRefresh ==
  /\ pc = "sleep"
  /\ pc' = "init"
  /\ UNCHANGED <<config, rot, content, conditionDict, ledstate, num_display_loops,
                 threadarray, orphans, pixels, shown, STOPFLAG, l, p, fastblink, exc,
                 joined>>

\* line 313 (and 316), or the end of the rotation (line 341)
RotationLoop ==
  /\ pc = "loop"
  /\ p' = 0
  /\ pc' = IF l < num_display_loops THEN "station" ELSE "kill"
  /\ it' = IF l < num_display_loops THEN 0 ELSE it
  /\ UNCHANGED <<config, metarStation, slept, content, conditionDict, ledstate, num_display_loops,
                 threadarray, orphans, pixels, shown, STOPFLAG, l, fastblink, exc,
                 joined>>

\* lines 317-320: the for loop yields the next station of the list, or ends;
\* the thread of position p is told to stop
StationHead ==
  /\ pc = "station"
  /\ IF it >= NPos
     THEN /\ l' = l + 1
          /\ pc' = "loop"
          /\ UNCHANGED <<STOPFLAG, rot>>
     ELSE /\ metarStation' = airports[it]
          /\ it' = it + 1
          /\ slept' = 0
          /\ UNCHANGED l
          /\ IF FAST_BLINK_DISPLAYED_STATION /\ ledstate[p][2]
             THEN /\ STOPFLAG' = p
                  /\ pc' = "join"
             ELSE /\ pc' = "display"
                  /\ UNCHANGED STOPFLAG
  /\ UNCHANGED <<config, content, conditionDict, ledstate, num_display_loops,
                 threadarray, orphans, pixels, shown, p, fastblink, exc, joined>>

\* a join that does not wait
JoinSkipped(t) == TRUE

\* a join that never returns
JoinNever(t) == FALSE

\* lines 321 and 346: join() returns once the thread is dead
JoinReturns(t) == ~Live(t)

JoinThread ==
  /\ pc = "join"
  /\ JoinReturns(threadarray[p])
  /\ joined' = joined \cup {p}
  /\ pc' = "unflag"
  /\ UNCHANGED <<config, rot, content, conditionDict, ledstate, num_display_loops,
                 threadarray, orphans, pixels, shown, STOPFLAG, l, p, fastblink, exc>>

\* a main thread that leaves the stop signal set after the join
ClearStopFlagForgotten ==
  /\ pc = "unflag"
  /\ pc' = "display"
  /\ UNCHANGED <<config, rot, content, conditionDict, ledstate, num_display_loops,
                 threadarray, orphans, pixels, shown, STOPFLAG, l, p, fastblink, exc,
                 joined>>

\* line 322
ClearStopFlag ==
  /\ pc = "unflag"
  /\ STOPFLAG' = DONTSTOP
  /\ pc' = "display"
  /\ UNCHANGED <<config, rot, content, conditionDict, ledstate, num_display_loops,
                 threadarray, orphans, pixels, shown, l, p, fastblink, exc, joined>>

\* line 324
HasMetar(station) == station # "NULL" /\ station \in DOMAIN conditionDict

\* lines 324-329 and 338-339: show the METAR; then enter blinkme, or sleep;
\* a station without METAR is passed without either
DisplayStation ==
  /\ pc = "display"
  /\ IF HasMetar(metarStation) /\ FAST_BLINK_DISPLAYED_STATION
     THEN /\ fastblink' = BlinkStart(p, ledstate[p][1], DISPLAY_ROTATION_SPEED,
                                     FAST_BLINK_SPEED)
          /\ pc' = "fastblink"
          /\ UNCHANGED <<p, slept>>
     ELSE /\ p' = p + 1
          /\ pc' = "station"
          /\ slept' = IF HasMetar(metarStation) THEN DISPLAY_ROTATION_SPEED ELSE 0
          /\ UNCHANGED fastblink
  /\ UNCHANGED <<config, it, metarStation, content, conditionDict, ledstate, num_display_loops,
                 threadarray, orphans, pixels, shown, STOPFLAG, l, exc, joined>>

\* line 329: the main thread inside blinkme
FastBlinkStep ==
  /\ pc = "fastblink"
  /\ Live(fastblink)
  /\ fastblink' = BlinkFrame(fastblink, STOPFLAG)
  /\ pixels' = BlinkPixels(fastblink, pixels)
  /\ shown' = IF Writes(fastblink) THEN pixels' ELSE shown
  /\ joined' = IF Writes(fastblink) THEN joined \ {p} ELSE joined
  /\ UNCHANGED <<config, rot, content, conditionDict, ledstate, num_display_loops,
                 threadarray, orphans, STOPFLAG, pc, l, p, exc>>

\* line 331, after blinkme returned
ResetPixel ==
  /\ pc = "fastblink"
  /\ ~Live(fastblink)
  /\ pixels' = [pixels EXCEPT ![p] = ledstate[p][1]]
  /\ joined' = joined \ {p}
  /\ pc' = "restart"
  /\ UNCHANGED <<config, rot, content, conditionDict, ledstate, num_display_loops,
                 threadarray, orphans, shown, STOPFLAG, l, p, fastblink, exc>>

\* lines 333-335
RestartThread ==
  /\ pc = "restart"
  /\ IF ledstate[p][2]
     THEN /\ threadarray' = [threadarray EXCEPT ![p] = StartedThread(p)]
          /\ orphans' = IF Live(threadarray[p])
                        THEN orphans (+) SetToBag({threadarray[p]}) ELSE orphans
     ELSE UNCHANGED <<threadarray, orphans>>
  /\ pc' = "reshow"
  /\ UNCHANGED <<config, rot, content, conditionDict, ledstate, num_display_loops, pixels,
                 shown, STOPFLAG, l, p, fastblink, exc, joined>>

\* lines 336 and 339
ShowRestored ==
  /\ pc = "reshow"
  /\ shown' = pixels
  /\ p' = p + 1
  /\ pc' = "station"
  /\ UNCHANGED <<config, rot, content, conditionDict, ledstate, num_display_loops,
                 threadarray, orphans, pixels, STOPFLAG, l, fastblink, exc, joined>>

\* a main thread that refreshes without the kill loop
KillNothing ==
  /\ pc = "kill"
  /\ pc' = "init"
  /\ UNCHANGED <<config, rot, content, conditionDict, ledstate, num_display_loops,
                 threadarray, orphans, pixels, shown, STOPFLAG, l, p, fastblink, exc,
                 joined>>

\* lines 343-345, or the end of the cycle (line 351)
KillHead ==
  /\ pc = "kill"
  /\ IF p >= NPos
     THEN /\ pc' = "init"
          /\ UNCHANGED <<STOPFLAG, p>>
     ELSE IF ledstate[p][2]
     THEN /\ STOPFLAG' = p
          /\ pc' = "killjoin"
          /\ UNCHANGED p
     ELSE /\ p' = p + 1
          /\ UNCHANGED <<STOPFLAG, pc>>
  /\ UNCHANGED <<config, rot, content, conditionDict, ledstate, num_display_loops,
                 threadarray, orphans, pixels, shown, l, fastblink, exc, joined>>

\* line 346
KillJoin ==
  /\ pc = "killjoin"
  /\ JoinReturns(threadarray[p])
  /\ joined' = joined \cup {p}
  /\ pc' = "killunflag"
  /\ UNCHANGED <<config, rot, content, conditionDict, ledstate, num_display_loops,
                 threadarray, orphans, pixels, shown, STOPFLAG, l, p, fastblink, exc>>

\* line 347
KillClearStopFlag ==
  /\ pc = "killunflag"
  /\ STOPFLAG' = DONTSTOP
  /\ p' = p + 1
  /\ pc' = "kill"
  /\ UNCHANGED <<config, rot, content, conditionDict, ledstate, num_display_loops,
                 threadarray, orphans, pixels, shown, l, fastblink, exc, joined>>

\* ------------------------------------------------------------------------
\* A blink thread executes its next statement
\* ------------------------------------------------------------------------
BlinkThread(q) ==
  /\ Live(threadarray[q])
  /\ threadarray' = [threadarray EXCEPT ![q] = BlinkFrame(threadarray[q], STOPFLAG)]
  /\ pixels' = BlinkPixels(threadarray[q], pixels)
  /\ shown' = IF Writes(threadarray[q]) THEN pixels' ELSE shown
  /\ UNCHANGED <<config, rot, content, conditionDict, ledstate, num_display_loops, orphans,
                 STOPFLAG, pc, l, p, fastblink, exc, joined>>

Blink == \E q \in DOMAIN threadarray : BlinkThread(q)

\* a thread that outlived its threadarray entry
OrphanThread(t) ==
  /\ orphans' = IF Live(BlinkFrame(t, STOPFLAG))
                THEN (orphans (-) SetToBag({t})) (+) SetToBag({BlinkFrame(t, STOPFLAG)})
                ELSE orphans (-) SetToBag({t})
  /\ pixels' = BlinkPixels(t, pixels)
  /\ shown' = IF Writes(t) /\ pixels # EmptyList THEN pixels' ELSE shown
  /\ UNCHANGED <<config, rot, content, conditionDict, ledstate, num_display_loops,
                 threadarray, STOPFLAG, pc, l, p, fastblink, exc, joined>>

OrphanBlink == \E t \in BagToSet(orphans) : OrphanThread(t)

\* the statements of the main thread other than a returning get_weather
MainAfterFetch ==
  \/ InitializeDisplayAndLeds
  \/ FetchFails
  \/ CalcTargets
  \/ SpawnThread
  \/ ShowTargets
  \/ SleepRefresh
  \/ RotationLoop
  \/ StationHead
  \/ JoinThread
  \/ ClearStopFlag
  \/ DisplayStation
  \/ FastBlinkStep
  \/ ResetPixel
  \/ RestartThread
  \/ ShowRestored
  \/ KillHead
  \/ KillJoin
  \/ KillClearStopFlag

MainStep == GetWeather \/ MainAfterFetch

Next == MainStep \/ Blink \/ OrphanBlink

Spec == Init /\ [][Next]_vars

\* The loop under a fair scheduler: the main thread and every blink thread
\* that can take a step eventually takes one (each sleep() ends).  The
\* responses are complete records of a windy and of a calm station, for any
\* part of the stations asked.
LiveRecords ==
  UNION {{ MetarRecord(s, <<"VFR">>, <<>>, <<30>>, <<>>, <<<<"RA">>>>, <<1>>),
           MetarRecord(s, <<"IFR">>, <<>>, <<>>, <<>>, <<<<"RA">>>>, <<1>>) } : s \in StationIds}

GetWeatherLive == GetWeatherOf(FeedsFor(LiveRecords))

MainStepLive == GetWeatherLive \/ MainAfterFetch

NextLive == MainStepLive \/ Blink \/ OrphanBlink

SpecLive ==
  /\ Init
  /\ [][NextLive]_vars
  /\ WF_vars(MainStepLive)
  /\ \A q \in 0..(MaxPos - 1) : WF_vars(q \in DOMAIN threadarray /\ BlinkThread(q))
  /\ WF_vars(OrphanBlink)

\* ------------------------------------------------------------------------
\* Properties of the display loop (specification Spec)
\* ------------------------------------------------------------------------
\* the main thread is inside a cancel-and-join for position q
Targeted(q) == pc \in {"join", "killjoin"} /\ p = q /\ STOPFLAG = q

\* the frame runs out of iterations at its next statement
RunsOut(t) == t.pc = "check" /\ Exhausted(t)

\* the orphan t stops in this step
OrphanStops(t) ==
  /\ CopiesIn(t, orphans') < CopiesIn(t, orphans)
  /\ BagCardinality(orphans') < BagCardinality(orphans)

\* C1: a blink task stops only when the main thread is in the cancel-and-join
\* of the task's own position, or when the task has used up its blink count;
\* the cancel-and-join of a position never stops the task of another one.
C1_TargetedCancellation ==
  [][ /\ \A q \in DOMAIN threadarray \cap DOMAIN threadarray' :
           (Live(threadarray[q]) /\ ~Live(threadarray'[q]))
             => (Targeted(threadarray[q].pixelnum) \/ RunsOut(threadarray[q]))
      /\ \A t \in BagToSet(orphans) :
           OrphanStops(t) => (Targeted(t.pixelnum) \/ RunsOut(t)) ]_vars

\* C1 witness: the canceled task of position p has stopped by the break while
\* the task of another position is still running
C1_Witness ==
  /\ pc = "unflag"
  /\ threadarray[p].broke
  /\ \E q \in DOMAIN threadarray : q # p /\ Live(threadarray[q])

\* C2: from the return of the join for a position until the main thread
\* writes that position or starts a thread for it, no blink thread of that
\* position is alive (so none writes or flushes it).
C2_JoinedTaskStopped == \A q \in joined : LiveAt(q) = 0

\* C2 witness: a join has returned for a canceled task, nothing has been
\* written since, and another thread is running
C2_Witness ==
  /\ pc = "display"
  /\ p \in joined
  /\ threadarray[p].broke
  /\ \E q \in DOMAIN threadarray : Live(threadarray[q])

\* the main thread's own blinkme call writes position q
FastBlinkAt(q) == IF pc = "fastblink" /\ Live(fastblink) /\ p = q THEN 1 ELSE 0

\* C3 (as claimed): at most one live task writes any position.
C3_SingleOwner == \A q \in Positions : LiveAt(q) + FastBlinkAt(q) <= 1

\* C4 (as claimed): no blink task is alive when a cycle reaches the fetch.
C4_NoTaskOutlivesCycle == pc = "fetch" => LiveThreads = 0

\* all the frames of blink threads
Frames == {threadarray[q] : q \in DOMAIN threadarray} \cup BagToSet(orphans)

\* C5 (as claimed): after the stop signal names its position a task makes at
\* most one more write/flush pair (one half-period wait).
C5_OneHalfCycle == \A t \in Frames : t.flushes <= 1

\* C5 (amended): the task looks at the stop signal once per blink cycle, after
\* the on phase; after the signal names its position it makes at most two
\* more write/flush pairs (one off, one on) before it stops.
C5_OneFullCycle == \A t \in Frames : t.flushes <= 2

\* C5 witness: the signal came before the off phase, the task has written off
\* and on since, and stops at its next statement
C5_Witness ==
  \E q \in DOMAIN threadarray :
    /\ threadarray[q].pc = "check"
    /\ threadarray[q].flushes = 2
    /\ STOPFLAG = q

\* C6: a task that stops by the break of line 111 does so right after its on
\* phase: its position shows (buffer and strip) the task's color.
C6_StopsOnColor ==
  [][ \A q \in DOMAIN threadarray \cap DOMAIN threadarray' :
        (Live(threadarray[q]) /\ threadarray'[q].pc = "done" /\ threadarray'[q].broke)
          => /\ pixels[q] = threadarray[q].color
             /\ shown[q] = threadarray[q].color ]_vars

\* C6 witness: a canceled task has stopped and its position shows a color
\* that is not the dark one
C6_Witness ==
  /\ pc = "join"
  /\ threadarray[p].broke
  /\ shown[p] = ledstate[p][1]
  /\ shown[p] # COLOR_CLEAR

\* C7 (as claimed): a failing fetch never ends the main loop.
C7_FetchFailureSurvived == ~(pc = "crashed" /\ exc = "URLError")

\* the wind-blink eligibility of the station of position q, from its condition
EligibleAt(q) ==
  /\ airports[q] \in DOMAIN conditionDict
  /\ \/ conditionDict[airports[q]].windSpeed > WIND_BLINK_THRESHOLD
     \/ conditionDict[airports[q]].windGust

\* C13: with the wind animation on, the animate flag of every entry of the
\* target state is the wind-blink eligibility of its station, whatever chose
\* the color; with the animation off every animate flag is false and no blink
\* thread exists at any point of any cycle.
C13_AnimateGated ==
  /\ pc # "calc" =>
       \A q \in DOMAIN ledstate :
         ledstate[q][2] <=> (ACTIVATE_WINDCONDITION_ANIMATION /\ EligibleAt(q))
  /\ ~ACTIVATE_WINDCONDITION_ANIMATION =>
       /\ \A q \in DOMAIN threadarray : threadarray[q] = NoThread
       /\ orphans = EmptyBag

\* C13 witness: the lightning branch chose the color of a gusty station, its
\* entry is animated and its blink thread runs
C13_Witness ==
  /\ pc = "loop"
  /\ \E q \in DOMAIN threadarray :
       /\ airports[q] \in DOMAIN conditionDict
       /\ conditionDict[airports[q]].lightning
       /\ ledstate[q] = <<COLOR_LIGHTNING, TRUE>>
       /\ Live(threadarray[q])

\* C14 (as claimed): after the fast blink of position p the main thread
\* writes the static color, flushes, and only then starts the fresh blink
\* thread: while the restoring flush is still to come no thread has been
\* started for p.
C14_FlushBeforeRestart == pc = "reshow" => ~Live(threadarray[p])

\* the main thread is in the rotation (lines 313-339)
InRotation ==
  pc \in {"loop", "station", "join", "unflag", "display", "fastblink", "restart", "reshow"}

\* the main thread is at position q: between the cancellation of its thread
\* and the flush after its restart
Visiting(q) ==
  pc \in {"join", "unflag", "display", "fastblink", "restart", "reshow"} /\ p = q

\* the thread of position q has used up its blink count (9999 s in the
\* source, where a refresh cycle lasts 1800 s)
RanOut(q) == threadarray[q].pc = "done" /\ ~threadarray[q].broke

\* the main thread is past the start-up of the threads and before the next
\* cycle: in the rotation or in the final kill loop
InCycle == InRotation \/ pc \in {"kill", "killjoin", "killunflag"}

\* C15 (as claimed): with the display and the fast highlight, within a cycle:
\* no blink thread of p is alive while the main thread fast-blinks p, and at
\* every point where a position is not being fast-blinked it has exactly one
\* live blink thread if its animate flag is true and none otherwise.
C15_OneTaskUnlessHighlighted ==
  (disp /\ FAST_BLINK_DISPLAYED_STATION /\ InCycle) =>
    /\ pc = "fastblink" => LiveAt(p) = 0
    /\ \A q \in Positions :
         ~(pc = "fastblink" /\ p = q) =>
           IF ledstate[q][2] THEN LiveAt(q) = 1 \/ RanOut(q) ELSE LiveAt(q) = 0

\* C15 (amended): with the display and the fast highlight, during the
\* rotation: while the main thread fast-blinks position p no blink thread of p
\* is alive; a position that is not animated never has a blink thread; and an
\* animated position has exactly one live blink thread (unless that thread
\* used up its blink count) at every point outside the main thread's visit of
\* it, which lasts from the cancellation request to the flush after the
\* restart.
C15_HighlightExclusive ==
  (disp /\ FAST_BLINK_DISPLAYED_STATION /\ InRotation) =>
    /\ pc = "fastblink" => LiveAt(p) = 0
    /\ \A q \in Positions :
         /\ ~ledstate[q][2] => LiveAt(q) = 0
         /\ (ledstate[q][2] /\ ~Visiting(q)) => (LiveAt(q) = 1 \/ RanOut(q))
         /\ LiveAt(q) <= 1

\* C15 witness: position 1 is being fast-blinked, its thread canceled and
\* joined, while the thread of position 0, canceled during its own visit,
\* runs again
C15_Witness ==
  /\ disp /\ FAST_BLINK_DISPLAYED_STATION
  /\ pc = "fastblink" /\ Live(fastblink)
  /\ p = 1
  /\ ledstate[0][2] /\ ledstate[1][2]
  /\ threadarray[1].broke
  /\ Live(threadarray[0])

C17_DwellWithoutInteraction ==
  [][ (disp /\ ~FAST_BLINK_DISPLAYED_STATION /\ InRotation /\ pc' # pc) =>
        /\ STOPFLAG' = STOPFLAG
        /\ threadarray' = threadarray
        /\ pixels' = pixels /\ shown' = shown
        /\ (pc = "display" /\ pc' = "station") => slept' = DISPLAY_ROTATION_SPEED ]_vars

\* k is the refresh period divided by (dwell time x number of positions),
\* truncated down
IsTruncatedQuotient(k) ==
  /\ k * (DISPLAY_ROTATION_SPEED * NPos) <= REFRESH_TIME_SECONDS
  /\ REFRESH_TIME_SECONDS < (k + 1) * (DISPLAY_ROTATION_SPEED * NPos)

\* C18: with the display, the rotation makes exactly the truncated quotient
\* of iterations; in each iteration the for loop yields the entries of the
\* list once each in list order, and while a station is visited the position
\* index p is the index of that station, placeholders and stations without
\* METAR included.
C18_RotationCount ==
  disp =>
    /\ InRotation => \E k \in l..REFRESH_TIME_SECONDS : IsTruncatedQuotient(k)
    /\ pc \in {"kill", "killjoin", "killunflag"} => IsTruncatedQuotient(l)
    /\ pc = "station" => it = p /\ p <= NPos
    /\ (pc = "loop" /\ l > 0) => it = NPos
    /\ Visiting(p) => /\ p \in Positions
                      /\ it = p + 1
                      /\ metarStation = airports[p]

\* C18 witness: the second station of a list that starts with a placeholder
\* is visited at position 1, in the last of the iterations
C18_Witness ==
  /\ disp
  /\ pc = "display"
  /\ airports[0] = "NULL"
  /\ p = 1 /\ metarStation = airports[1] /\ metarStation # "NULL"
  /\ IsTruncatedQuotient(l + 1)

\* C19 (specification SpecLive): under fair scheduling the stop signal stays
\* on the joined position until the join returns, every join of the rotation
\* and of the kill loop returns, and every cycle whose get_weather returned
\* reaches the fetch of the next cycle.
C19_LoopProgress ==
  /\ [](pc \in {"join", "killjoin"} => STOPFLAG = p)
  /\ (pc = "join") ~> (pc = "unflag")
  /\ (pc = "killjoin") ~> (pc = "killunflag")
  /\ (pc = "calc") ~> (pc = "fetch")

\* C19 witness: in a later cycle, a thread restarted during the rotation was
\* canceled by the kill loop and its join has returned
C19_Witness ==
  /\ FAST_BLINK_DISPLAYED_STATION
  /\ pc = "killunflag"
  /\ threadarray[p].broke
  /\ STOPFLAG = p
  /\ \E q \in DOMAIN shown : shown[q] # COLOR_CLEAR

\* C20: STOPFLAG is a position index only from a cancellation request to the
\* reset that follows the return of its join, and then it is the position being
\* joined; DONTSTOP is no position index; STOPFLAG is DONTSTOP wherever a
\* blink thread is started and throughout the main thread's fast blink, which
\* therefore runs all its DISPLAY_ROTATION_SPEED \div FAST_BLINK_SPEED cycles
\* and never leaves by the break.
C20_StopFlagScoped ==
  /\ DONTSTOP \notin Positions
  /\ STOPFLAG # DONTSTOP =>
       /\ pc \in {"join", "unflag", "killjoin", "killunflag"}
       /\ STOPFLAG = p
       /\ p \in Positions
  /\ pc \in {"spawn", "restart", "fastblink"} => STOPFLAG = DONTSTOP
  /\ (pc = "fastblink" /\ Live(fastblink)) =>
       /\ fastblink.pixelnum = p
       /\ fastblink.numblinks = DISPLAY_ROTATION_SPEED \div FAST_BLINK_SPEED
  /\ (pc = "fastblink" /\ ~Live(fastblink)) =>
       (fastblink.pc = "done" /\ ~fastblink.broke)

\* C20 witness: the thread of position p was canceled and joined, the fast
\* blink of p has run to its end, and the main thread is about to start the
\* fresh thread with STOPFLAG back at DONTSTOP
C20_Witness ==
  /\ pc = "restart"
  /\ ledstate[p][2]
  /\ threadarray[p].broke
  /\ fastblink.pc = "done" /\ ~fastblink.broke
  /\ STOPFLAG = DONTSTOP

\* ------------------------------------------------------------------------
\* The classifier alone (specification SpecClassify): any response of at
\* most MaxFeed records, each with all, none, all but one or just one of its
\* optional elements; the two stations report different observation times.
\* ------------------------------------------------------------------------
Present(s) ==
  [wind_gust_kt |-> <<20>>, wind_speed_kt |-> <<30>>, temp_c |-> <<25>>,
   raw_text |-> <<<<"TS", "LTG">>>>,
   observation_time |-> IF s = "KBOS" THEN <<1>> ELSE <<2>>]

OptionalFields == DOMAIN Present("KBOS")

\* the record of station s with flight category fc and the optional elements has
RecordWith(s, fc, has) ==
  [f \in OptionalFields \cup {"station_id", "flight_category"} |->
     IF f = "station_id" THEN s
     ELSE IF f = "flight_category" THEN fc
     ELSE IF f \in has THEN Present(s)[f] ELSE <<>>]

FieldPatterns ==
  {OptionalFields, {}} \cup {{f} : f \in OptionalFields}
                       \cup {OptionalFields \ {f} : f \in OptionalFields}

ClassifyRecords ==
  UNION {{RecordWith(s, <<"VFR">>, has) : has \in FieldPatterns}
           \cup {RecordWith(s, <<>>, has) : has \in {OptionalFields, {}}} : s \in StationIds}

InitClassify ==
  /\ ACTIVATE_WINDCONDITION_ANIMATION \in BOOLEAN
  /\ ALWAYS_BLINK_FOR_GUSTS \in BOOLEAN
  /\ FAST_BLINK_DISPLAYED_STATION = TRUE
  /\ disp = TRUE
  /\ airports = [q \in 0..1 |-> IF q = 0 THEN "KBOS" ELSE "KJFK"]
  /\ pc = "init"
  /\ conditionDict = EmptyList
  /\ StartState

ClassifyFeed == GetWeatherOf(Feeds(ClassifyRecords))

NextClassify == InitializeDisplayAndLeds \/ ClassifyFeed \/ CalcTargets

SpecClassify == InitClassify /\ [][NextClassify]_vars

\* the stations of the response, and those with a categorised record
FeedStations == {content[k].station_id : k \in 1..Len(content)}
Categorised ==
  {content[k].station_id : k \in {j \in 1..Len(content) : content[j].flight_category # <<>>}}

\* the last categorised record of station s
LastRecord(s) ==
  content[CHOOSE k \in 1..Len(content) :
            /\ content[k].station_id = s
            /\ content[k].flight_category # <<>>
            /\ \A j \in (k + 1)..Len(content) :
                 content[j].station_id = s => content[j].flight_category = <<>>]

\* C8 (as claimed): the map has one entry per station of the response, the
\* stations without flight category included.
C8_OnePerStation ==
  pc = "calc" => Cardinality(DOMAIN conditionDict) = Cardinality(FeedStations)

\* C8 (amended): whenever the classifier returns a map, its entries are the
\* stations that have a record with a flight category, each with the category
\* of the last such record; a record without flight category is skipped and
\* adds no entry.
C8_OnePerCategorised ==
  pc = "calc" =>
    /\ DOMAIN conditionDict = Categorised
    /\ \A s \in Categorised :
         conditionDict[s].flightCategory = LastRecord(s).flight_category[1]

\* C8 witness: a response with a categorised station and a station whose only
\* records lack the flight category; the map has the first and not the second
C8_Witness ==
  /\ pc = "calc"
  /\ DOMAIN conditionDict # {}
  /\ FeedStations \ DOMAIN conditionDict # {}

\* C9 (as claimed): classifying a record that lacks optional elements does not
\* raise, and every absent element yields its default, whatever came before.
C9_MissingFieldsDefaulted ==
  /\ ~(pc = "crashed" /\ exc = "UnboundLocalError")
  /\ pc = "calc" =>
       \A s \in Categorised :
         /\ LastRecord(s).wind_speed_kt = <<>> => conditionDict[s].windSpeed = 0
         /\ LastRecord(s).wind_gust_kt = <<>> =>
              (conditionDict[s].windGustSpeed = 0 /\ conditionDict[s].windGust = FALSE)
         /\ LastRecord(s).temp_c = <<>> => conditionDict[s].tempC = 0
         /\ LastRecord(s).raw_text = <<>> => conditionDict[s].lightning = FALSE
         /\ LastRecord(s).observation_time = <<>> => conditionDict[s].obsTime = NOW

\* ------------------------------------------------------------------------
\* The target-state calculator alone (specification SpecTargets): any list
\* of stations, placeholders and blank entries, any map the classifier can
\* return for the stations asked.
\* ------------------------------------------------------------------------
TargetRecords ==
  {MetarRecord(s, fc, w[1], w[2], <<>>, raw, <<1>>) :
     s \in StationIds,
     fc \in {<<"VFR">>, <<"MVFR">>, <<"IFR">>, <<"LIFR">>, <<"UNK">>},
     w \in {<<<<>>, <<>>>>, <<<<>>, <<30>>>>, <<<<20>>, <<10>>>>},
     raw \in {<<<<"RA">>>>, <<<<"TS", "LTG">>>>}}

InitTargets ==
  /\ ACTIVATE_WINDCONDITION_ANIMATION \in BOOLEAN
  /\ ALWAYS_BLINK_FOR_GUSTS \in BOOLEAN
  /\ FAST_BLINK_DISPLAYED_STATION = TRUE
  /\ disp = TRUE
  /\ airports \in AirportLists(AirportNames, MaxPos)
  /\ pc = "calc"
  /\ StartState
  /\ \E feed \in FeedsFor(TargetRecords) :
       conditionDict = get_weather(feed, ALWAYS_BLINK_FOR_GUSTS).dict

NextTargets == CalcTargets

SpecTargets == InitTargets /\ [][NextTargets]_vars

CategoryColors ==
  [fc \in {"VFR", "MVFR", "IFR", "LIFR"} |->
     CASE fc = "VFR" -> <<255, 0, 0>>
       [] fc = "MVFR" -> <<0, 0, 255>>
       [] fc = "IFR" -> <<0, 255, 0>>
       [] fc = "LIFR" -> <<0, 125, 125>>]

\* the priority policy, first match wins
PolicyColor(q) ==
  IF airports[q] \in {"NULL", ""} THEN <<0, 0, 0>>
  ELSE IF airports[q] \notin DOMAIN conditionDict THEN <<0, 0, 0>>
  ELSE IF conditionDict[airports[q]].lightning THEN <<255, 255, 255>>
  ELSE IF conditionDict[airports[q]].flightCategory \in DOMAIN CategoryColors
  THEN CategoryColors[conditionDict[airports[q]].flightCategory]
  ELSE <<0, 0, 0>>

\* C10: every entry of the target state has the color of the priority policy:
\* placeholder -> off, no condition -> off, lightning -> lightning color,
\* VFR/MVFR/IFR/LIFR -> its color, anything else -> off.
C10_ColorPriority ==
  pc = "spawn" => \A q \in Positions : ledstate[q][1] = PolicyColor(q)

\* C10 witness: a station with lightning and category IFR or LIFR got the
\* lightning color
C10_Witness ==
  /\ pc = "spawn"
  /\ \E q \in Positions :
       /\ airports[q] \in DOMAIN conditionDict
       /\ conditionDict[airports[q]].lightning
       /\ conditionDict[airports[q]].flightCategory \in {"IFR", "LIFR"}
       /\ ledstate[q][1] = COLOR_LIGHTNING

\* the target state of the one-position list holding the entry of position q
AloneAt(q) ==
  calc_target_colors([x \in {0} |-> airports[q]], conditionDict,
                     ACTIVATE_WINDCONDITION_ANIMATION)[0]

NoData(q) == airports[q] \in {"NULL", ""} \/ airports[q] \notin DOMAIN conditionDict

\* C11: the target state has exactly one entry per position of the list, in
\* list order: entry q is what the calculator yields for the station of
\* position q alone, whatever stands before it; a placeholder or a station
\* without condition is off and not animated, so an all-placeholder list is
\* all off.
C11_PositionIntegrity ==
  pc = "spawn" =>
    /\ DOMAIN ledstate = DOMAIN airports
    /\ \A q \in Positions :
         /\ ledstate[q] = AloneAt(q)
         /\ NoData(q) => ledstate[q] = <<COLOR_CLEAR, FALSE>>

\* C11 witness: a placeholder before a windy reporting station; the station's
\* entry is at the station's own position
C11_Witness ==
  /\ pc = "spawn"
  /\ NPos = 2
  /\ airports[0] \in {"NULL", ""}
  /\ airports[1] \in DOMAIN conditionDict
  /\ ledstate[0] = <<COLOR_CLEAR, FALSE>>
  /\ ledstate[1][1] # COLOR_CLEAR
  /\ ledstate[1][2]

\* ------------------------------------------------------------------------
\* Wind (specification SpecWind): two reporting stations, every combination
\* of gust and speed absent, zero, at the threshold and above it, with
\* either value of ALWAYS_BLINK_FOR_GUSTS.
\* ------------------------------------------------------------------------
WindValues == {<<>>, <<0>>, <<WIND_BLINK_THRESHOLD>>, <<WIND_BLINK_THRESHOLD + 1>>}

WindRecords ==
  {MetarRecord(s, <<"VFR">>, gust, speed, <<>>, <<>>, <<1>>) :
     s \in StationIds, gust \in WindValues, speed \in WindValues}

InitWind ==
  /\ ACTIVATE_WINDCONDITION_ANIMATION \in BOOLEAN
  /\ ALWAYS_BLINK_FOR_GUSTS \in BOOLEAN
  /\ FAST_BLINK_DISPLAYED_STATION = TRUE
  /\ disp = TRUE
  /\ airports = [q \in 0..1 |-> IF q = 0 THEN "KBOS" ELSE "KJFK"]
  /\ pc = "init"
  /\ conditionDict = EmptyList
  /\ StartState

WindFeed == GetWeatherOf(FeedsFor(WindRecords))

NextWind == InitializeDisplayAndLeds \/ WindFeed \/ CalcTargets

SpecWind == InitWind /\ [][NextWind]_vars

\* the eligibility rule applied to a METAR element
RuleEligible(metar) ==
  \/ ALWAYS_BLINK_FOR_GUSTS /\ metar.wind_gust_kt # <<>>
  \/ metar.wind_gust_kt # <<>> /\ metar.wind_gust_kt[1] > WIND_BLINK_THRESHOLD
  \/ metar.wind_speed_kt # <<>> /\ metar.wind_speed_kt[1] > WIND_BLINK_THRESHOLD

\* C12: with the wind animation on, the blink flag computed for a station
\* from its METAR element (windGust at line 197, windy at line 245) is true
\* iff (always-blink-for-gusts and a gust is present) or the gust is above the
\* threshold or the speed is above the threshold.
C12_WindBlinkEligible ==
  [][ (pc = "calc" /\ pc' = "spawn" /\ ACTIVATE_WINDCONDITION_ANIMATION) =>
        \A q \in Positions :
          airports[q] \in Categorised =>
            (ledstate'[q][2] <=> RuleEligible(LastRecord(airports[q]))) ]_vars

\* C12 witness: without always-blink-for-gusts, a station whose gust is above
\* the threshold with no speed blinks, one with gust and speed at the
\* threshold does not
C12_Witness ==
  /\ pc = "spawn"
  /\ ACTIVATE_WINDCONDITION_ANIMATION /\ ~ALWAYS_BLINK_FOR_GUSTS
  /\ DOMAIN conditionDict = {"KBOS", "KJFK"}
  /\ conditionDict["KBOS"].windGustSpeed = 26 /\ conditionDict["KBOS"].windSpeed = 0
  /\ conditionDict["KJFK"].windGustSpeed = 25 /\ conditionDict["KJFK"].windSpeed = 25
  /\ ledstate[0][2] /\ ~ledstate[1][2]

====
